---------------------------- MODULE Spec2Model ----------------------------
(***************************************************************************)
(* Model of UelDisplacement<nDim, nNodes> (src/include/uelDisplacement.h): *)
(* a displacement finite element with its Gauss Points, the views of their *)
(* stress and strain onto the caller's state buffer, the material owned by *)
(* each Gauss Point, the geometry cache and the computation kernel with    *)
(* its cut-back protocol.                                                  *)
(*                                                                         *)
(* Doubles are modelled by integers.  The suggested step fraction pNewDT   *)
(* is held in percent (100 is 1.0).  The collaborators the header only     *)
(* calls (geometry primitives, Voigt utilities, the material, the boundary *)
(* element) are modelled by integer-valued pure functions at their call    *)
(* sites; whether the material asks for a cut-back is nondeterministic.    *)
(***************************************************************************)
EXTENDS Integers, Sequences, FiniteSets, TLC

(* ------------------------------ bounds -------------------------------- *)

\* largest number of Gauss Points an element is constructed with
MaxGauss == 2

\* computeYourself calls on one binding of the state buffer
MaxCalls == 2

\* assignProperty(materialSection) calls per behaviour
MaxSections == 2

\* doubles the modelled material asks for (getNumberOfRequiredStateVars of the material)
MatStateVars == 1

(* ------------------------- program constants -------------------------- *)

\* template parameter nNodes of the instantiations modelled
nNodes == 2

\* GaussPt::nRequiredStateVars = 6 + 6
nRequiredStateVars == 12

\* Vgt::VoigtSize, the width of a stress or strain view (mVector6)
VoigtSize == 6

SectionType == {"UniaxialStress", "PlaneStress", "PlaneStrain", "Solid"}

\* BftElement::DistributedLoadTypes and BftElement::StateTypes as the header uses them
DistributedLoadTypes == {"Pressure", "SurfaceTraction"}

StateTypes == {"GeostaticStress", "Sigma11"}

(* ------------------------- integer linear algebra ---------------------- *)

RECURSIVE SumTo(_, _)
SumTo(f, n) == IF n = 0 THEN 0 ELSE f[n] + SumTo(f, n - 1)

Dot(u, v) == SumTo([k \in 1..Len(u) |-> u[k] * v[k]], Len(u))

Zeros(n) == [k \in 1..n |-> 0]

ZeroMat(r, c) == [i \in 1..r |-> Zeros(c)]

VecAdd(u, v) == [k \in 1..Len(u) |-> u[k] + v[k]]

VecSub(u, v) == [k \in 1..Len(u) |-> u[k] - v[k]]

VecScale(a, u) == [k \in 1..Len(u) |-> a * u[k]]

MatAdd(M, N) == [i \in 1..Len(M) |-> VecAdd(M[i], N[i])]

MatScale(a, M) == [i \in 1..Len(M) |-> VecScale(a, M[i])]

MatVec(M, v) == [i \in 1..Len(M) |-> Dot(M[i], v)]

Column(M, c) == [i \in 1..Len(M) |-> M[i][c]]

Transpose(M) == [c \in 1..Len(M[1]) |-> Column(M, c)]

MatMul(M, N) == [i \in 1..Len(M) |-> [c \in 1..Len(N[1]) |-> Dot(M[i], Column(N, c))]]

(* ---------------- sizes fixed by the template parameters --------------- *)

\* sizeLoadVector = nNodes * nDim
sizeLoadVector(d) == nNodes * d

\* nCoordinates = nNodes * nDim
nCoordinates(d) == nNodes * d

\* ParentGeometryElement::VoigtSize: 1, 3, 6 for nDim 1, 2, 3
GeometryVoigtSize(d) == CASE d = 1 -> 1 [] d = 2 -> 3 [] OTHER -> 6

(* ------------- collaborators, modelled at their call sites ------------- *)

\* NumIntegration::getGaussPointInfo: the i-th quadrature point (xi, weight)
GaussPointInfo(i) == [xi |-> i, weight |-> i + 1]

\* this->dNdXi(xi)
dNdXi(xi) == [op |-> "dNdXi", xi |-> xi]

\* this->Jacobian(dNdXi): reads the coordinates stored by the geometry base
Jacobian(dN, X) == [op |-> "Jacobian", dNdXi |-> dN, X |-> X]

\* J.inverse()
Inverse(J) == [op |-> "inverse", J |-> J]

\* J.determinant()
Determinant(J) == J.X[1] + J.dNdXi.xi

\* this->dNdX(dNdXi, JInv)
dNdX(dN, JInv) == [op |-> "dNdX", dNdXi |-> dN, JInv |-> JInv]

\* this->B(dNdX): VoigtSize x sizeLoadVector
BOperator(dNX, d) ==
    [r \in 1..GeometryVoigtSize(d) |->
        [c \in 1..sizeLoadVector(d) |->
            (((r + c + dNX.dNdXi.xi) % 3) - 1) * dNX.JInv.J.X[1]]]

\* this->NB(this->N(xi)): nDim x sizeLoadVector
NB(xi, d) ==
    [k \in 1..d |->
        [c \in 1..sizeLoadVector(d) |->
            IF ((c - 1) % d) + 1 = k THEN ((c - 1) \div d) + xi + 1 ELSE 0]]

\* std::cbrt, std::sqrt and the plain product, kept symbolic
CharacteristicLength(fn, arg) == [fn |-> fn, arg |-> arg]

NoCharacteristicLength == [fn |-> "unset", arg |-> 0]

\* Vgt::planeVoigtToVoigt
planeVoigtToVoigt(v) == <<v[1], v[2], 0, v[3], 0, 0>>

\* Vgt::voigtToPlaneVoigt
voigtToPlaneVoigt(v) == <<v[1], v[2], v[4]>>

PlaneIdx == <<1, 2, 4>>

\* mechanics::getPlaneStrainTangent
getPlaneStrainTangent(C66) == [k \in 1..3 |-> [l \in 1..3 |-> C66[PlaneIdx[k]][PlaneIdx[l]]]]

\* mechanics::getPlaneStressTangent: condensation of the 33 component
getPlaneStressTangent(C66) ==
    [k \in 1..3 |-> [l \in 1..3 |->
        C66[PlaneIdx[k]][PlaneIdx[l]]
            - ((C66[PlaneIdx[k]][3] * C66[3][PlaneIdx[l]]) \div C66[3][3])]]

\* mechanics::getUniaxialStressTangent: condensation of the 22 and 33 components
getUniaxialStressTangent(C66) ==
    C66[1][1]
      - ((C66[1][2] * (C66[3][3] * C66[2][1] - C66[2][3] * C66[3][1])
          + C66[1][3] * (C66[2][2] * C66[3][1] - C66[3][2] * C66[2][1]))
         \div (C66[2][2] * C66[3][3] - C66[2][3] * C66[3][2]))

\* Math::linearInterpolation( x, x0, x1, y0, y1 )
linearInterpolation(x, x0, x1, y0, y1) == y0 + (((y1 - y0) * (x - x0)) \div (x1 - x0))

(* ------------------------------ material ------------------------------- *)

\* What one material call may answer: the fraction it writes to pNewDT
\* (0: it leaves pNewDT as it is).  Its stiffness E follows from its history.
CutFractions == {0, 50}

MatResponses == [cutTo : CutFractions]

\* the full 6x6 tangent the material returns
MaterialTangent(E) ==
    [i \in 1..6 |-> [j \in 1..6 |->
        E * (IF i <= 3 /\ j <= 3 THEN (IF i = j THEN 12 ELSE 6)
             ELSE IF i = j THEN 3 ELSE 0)]]

\* BftMaterialHypoElastic::computeStress: stress updated in place
computeStress(stress, dE6, E) == VecAdd(stress, MatVec(MaterialTangent(E), dE6))

\* BftMaterialHypoElastic::computePlaneStress
computePlaneStress(stress, dE6, E) ==
    LET dS == MatVec(getPlaneStressTangent(MaterialTangent(E)), voigtToPlaneVoigt(dE6))
    IN  VecAdd(stress, planeVoigtToVoigt(dS))

\* BftMaterialHypoElastic::computeUniaxialStress
computeUniaxialStress(stress, dE6, E) ==
    [stress EXCEPT ![1] = @ + getUniaxialStressTangent(MaterialTangent(E)) * dE6[1]]

\* the in/out fraction after a material call
FractionAfter(pNewDT_, r) == IF r.cutTo = 0 THEN pNewDT_ ELSE r.cutTo

(* -------------------------------- state -------------------------------- *)

VARIABLES
    nDim,               \* template parameter nDim of the element
    sectionType,        \* const SectionType sectionType
    gaussPts,           \* std::vector<GaussPt>, indices 0..size-1
    elementProperties,  \* Map<const VectorXd>; <<>> is the Map on (nullptr, 0)
    coordinates,        \* the coordinates held by the geometry base; <<>> before initializeYourself
    stateVars,          \* the caller's buffer the views were last bound to (index k is stateVars[k+1])
    Pe,                 \* the vector P / Pe the caller handed to the last operation that takes one; <<>>: none
    Ke,                 \* the matrix Ke the caller handed to the last computeYourself; <<>>: none
    pNewDT,             \* the in/out suggested step fraction of the last computeYourself, in percent
    pc,                 \* "Stable", or "Evaluating" inside computeYourself
    gaussPtIdx,         \* the Gauss Point the loop of computeYourself stands at
    dQ,                 \* argument dQ of the running computeYourself
    S,                  \* local Voigt S of computeYourself; <<>>: declared, not yet assigned
    C,                  \* local CSized C of computeYourself; <<>>: declared, not yet assigned
    status,             \* "ok", or "undefined" after undefined behaviour
    raised,             \* the exception the last operation ended with, or "none"
    lastOp,             \* history: the last operation called, and its load type where it has one
    nextInstance,       \* material instances the factory has made so far
    nCalls,             \* computeYourself calls since the state buffer was last bound
    pre,                \* history: Pe, Ke, the buffer and the Gauss Points as the last operation taking P found them
    log,                \* history: one record per Gauss Point the last computeYourself went through
    outcome             \* history: "None", "Running", "Completed", "CutBackRequested"

vars == <<nDim, sectionType, gaussPts, elementProperties, coordinates, stateVars,
          Pe, Ke, pNewDT, pc, gaussPtIdx, dQ, S, C, status, raised, lastOp,
          nextInstance, nCalls, pre, log, outcome>>

config == <<nDim, sectionType>>

kernel == <<pc, gaussPtIdx, dQ, S, C>>

history == <<lastOp, pre, log, outcome>>

counters == <<nextInstance, nCalls>>

NoSnapshot == [Pe |-> <<>>, Ke |-> <<>>, stateVars |-> <<>>, gaussPts |-> <<>>]

Operation(name, arg) == [name |-> name, arg |-> arg]

GaussIdx == DOMAIN gaussPts

nGauss == Cardinality(GaussIdx)

(* ---------------------------- views and pointers ----------------------- *)

\* a view of 6 doubles at offset v[1] lies inside the buffer
ViewInBuffer(buf, v) == Len(v) = 1 /\ v[1] >= 0 /\ v[1] + VoigtSize <= Len(buf)

ReadView(buf, v) == [j \in 1..VoigtSize |-> buf[v[1] + j]]

WriteView(buf, v, vals) ==
    [k \in 1..Len(buf) |-> IF k - v[1] \in 1..VoigtSize THEN vals[k - v[1]] ELSE buf[k]]

\* the material's own block of nStateVars doubles lies inside the buffer
MaterialStateInBuffer(buf, mat) ==
    mat.nStateVars <= 0
    \/ (Len(mat.stateVars) = 1 /\ mat.stateVars[1] >= 0
        /\ mat.stateVars[1] + mat.nStateVars <= Len(buf))

\* the modelled material counts its calls in its first state variable ...
MaterialHistory(buf, mat) == IF mat.nStateVars <= 0 THEN 0 ELSE buf[mat.stateVars[1] + 1]

\* ... and answers with a stiffness that depends on that history and on its Gauss Point
MaterialStiffness(buf, mat) == 1 + ((MaterialHistory(buf, mat) + mat.gaussPt) % 2)

WriteMaterialState(buf, mat) ==
    IF mat.nStateVars <= 0 THEN buf
    ELSE [k \in 1..Len(buf) |-> IF k = mat.stateVars[1] + 1 THEN buf[k] + 1 ELSE buf[k]]

\* the step every operation ends in once it has run into undefined behaviour
\* (a null unique_ptr or Map dereferenced, a view outside the caller's buffer)
UndefinedBehaviour ==
    /\ status' = "undefined"
    /\ UNCHANGED <<config, gaussPts, elementProperties, coordinates, stateVars, Pe, Ke,
                   pNewDT, kernel, raised, counters, history>>

\* an operation that takes no output buffer runs: the buffers the caller handed to
\* the operation before are the caller's business again, and so is what it returned
ForgetCall(name) ==
    /\ lastOp' = Operation(name, "")
    /\ Pe' = <<>>
    /\ Ke' = <<>>
    /\ pNewDT' = 100
    /\ pre' = NoSnapshot
    /\ log' = <<>>
    /\ outcome' = "None"

\* an operation that is handed the load vector P starts
TakeLoadVector(P, name, arg) ==
    /\ lastOp' = Operation(name, arg)
    /\ Ke' = <<>>
    /\ pNewDT' = 100
    /\ pre' = [Pe |-> P, Ke |-> <<>>, stateVars |-> stateVars, gaussPts |-> gaussPts]
    /\ log' = <<>>
    /\ outcome' = "None"

Idle == status = "ok" /\ pc = "Stable"

(* ----------------------------- construction ---------------------------- *)

\* UelDisplacement::UelDisplacement: one GaussPt per quadrature point, views on nullptr
GaussPt(i) ==
    [xi |-> GaussPointInfo(i).xi, weight |-> GaussPointInfo(i).weight,
     material |-> <<>>, stress |-> <<>>, strain |-> <<>>, geometry |-> <<>>]

Init ==
    /\ nDim \in 1..3
    /\ sectionType \in SectionType
    /\ \E g \in 1..MaxGauss : gaussPts = [i \in 0..(g - 1) |-> GaussPt(i)]
    /\ elementProperties = <<>>
    /\ coordinates = <<>>
    /\ stateVars = <<>>
    /\ Pe = <<>>
    /\ Ke = <<>>
    /\ pNewDT = 100
    /\ pc = "Stable"
    /\ gaussPtIdx = 0
    /\ dQ = <<>>
    /\ S = <<>>
    /\ C = <<>>
    /\ status = "ok"
    /\ raised = "none"
    /\ lastOp = Operation("UelDisplacement", "")
    /\ nextInstance = 0
    /\ nCalls = 0
    /\ pre = NoSnapshot
    /\ log = <<>>
    /\ outcome = "None"

(* --------------------------- property binding -------------------------- *)

\* getNumberOfRequiredStateVars()
getNumberOfRequiredStateVars == (MatStateVars + nRequiredStateVars) * nGauss

\* assignProperty( const ElementProperties& ): rebinds the Map, allocates nothing
AssignProperty(props) ==
    /\ Idle
    /\ elementProperties' = props
    /\ raised' = "none"
    /\ ForgetCall("assignProperty")
    /\ UNCHANGED <<config, gaussPts, coordinates, stateVars, kernel, status, counters>>

\* userLibrary::bftMaterialFactory: a new instance, no state bound, no length set
NewMaterial(id, i) ==
    [id |-> id, gaussPt |-> i, stateVars |-> <<>>, nStateVars |-> 0,
     characteristicElementLength |-> NoCharacteristicLength]

\* assignProperty( const BftMaterialSection& ): gpt.material = unique_ptr( factory(...) )
AssignPropertySection ==
    /\ Idle
    /\ nextInstance + nGauss <= MaxSections * nGauss
    /\ gaussPts' = [i \in GaussIdx |->
                        [gaussPts[i] EXCEPT !.material = <<NewMaterial(nextInstance + i + 1, i)>>]]
    /\ nextInstance' = nextInstance + nGauss
    /\ raised' = "none"
    /\ ForgetCall("assignProperty(section)")
    /\ UNCHANGED <<config, elementProperties, coordinates, stateVars, kernel, status,
                   nCalls>>

(* ---------------------------- state binding ---------------------------- *)

\* int nStateVarsMaterial = ( nStateVars / gaussPts.size() ) - GaussPt::nRequiredStateVars
nStateVarsMaterial(nStateVars_) == (nStateVars_ \div nGauss) - nRequiredStateVars

\* stateVars + i * ( nStateVarsMaterial + nRequiredStateVars )
MaterialStateOffset(i, m) == i * (m + nRequiredStateVars)


\* a stress offset that leaves out the Gauss Point's block, so all stress views alias
StressOffsetOfFirstBlock(i, m) == m

\* stateVars + nStateVarsMaterial + i * ( nStateVarsMaterial + nRequiredStateVars )
StressOffset(i, m) == m + i * (m + nRequiredStateVars)


\* a strain offset that leaves out the 6 stress entries, so strain lies over stress
StrainOffsetOverStress(i, m) == m + i * (m + nRequiredStateVars)

\* stateVars + nStateVarsMaterial + i * ( nStateVarsMaterial + nRequiredStateVars ) + 6
StrainOffset(i, m) == m + i * (m + nRequiredStateVars) + 6

\* the Gauss Points after assignStateVars( stateVars, nStateVars )
BoundGaussPts(nStateVars_) ==
    LET m == nStateVarsMaterial(nStateVars_)
    IN  [i \in GaussIdx |->
            [gaussPts[i] EXCEPT
                !.material = <<[gaussPts[i].material[1] EXCEPT
                                    !.stateVars = <<MaterialStateOffset(i, m)>>,
                                    !.nStateVars = m]>>,
                !.stress = <<StressOffset(i, m)>>,
                !.strain = <<StrainOffset(i, m)>>]]

\* assignStateVars( double* stateVars, int nStateVars ): no check of nStateVars
AssignStateVars(buffer) ==
    /\ Idle
    /\ IF \E i \in GaussIdx : gaussPts[i].material = <<>>
       THEN UndefinedBehaviour
       ELSE /\ gaussPts' = BoundGaussPts(Len(buffer))
            /\ stateVars' = buffer
            /\ nCalls' = 0
            /\ raised' = "none"
            /\ ForgetCall("assignStateVars")
            /\ UNCHANGED <<config, elementProperties, coordinates, kernel, status,
                           nextInstance>>

\* getPermanentResultPointer( resultName, gaussPt, resultLength ) for "stress", "strain", "sdv"
getPermanentResultPointer(resultName, gaussPt) ==
    CASE resultName = "stress" ->
            [data |-> gaussPts[gaussPt].stress, resultLength |-> VoigtSize]
      [] resultName = "strain" ->
            [data |-> gaussPts[gaussPt].strain, resultLength |-> VoigtSize]
      [] resultName = "sdv" ->
            [data |-> gaussPts[gaussPt].material[1].stateVars,
             resultLength |-> gaussPts[gaussPt].material[1].nStateVars]

(* ------------------------------ initialization ------------------------- *)


\* an integrated volume that scales with elementProperties[0] for every section type
IntegratedVolumeWithThickness(weight, detJ, section, props) ==
    IF props = <<>> THEN weight * detJ ELSE weight * detJ * props[1]

\* gpt.geometry->intVol, by section type (elementProperties[0] is thickness or cross-section)
IntegratedVolume(weight, detJ, section, props) ==
    IF section = "Solid" THEN weight * detJ ELSE weight * detJ * props[1]

\* the length handed to material->setCharacteristicElementLength, by section type
ElementLength(detJ, section) ==
    CASE section = "Solid" -> CharacteristicLength("cbrt", 8 * detJ)
      [] section \in {"PlaneStrain", "PlaneStress"} -> CharacteristicLength("sqrt", 4 * detJ)
      [] OTHER -> CharacteristicLength("times", 2 * detJ)

\* std::make_unique<Geometry>() and the fields initializeYourself fills in
MakeGeometry(gpt, X, d, section, props) ==
    LET dN   == dNdXi(gpt.xi)
        J    == Jacobian(dN, X)
        JInv == Inverse(J)
        detJ == Determinant(J)
        dNX  == dNdX(dN, JInv)
    IN  [J |-> J, JInv |-> JInv, detJ |-> detJ, dNdXi |-> dN, dNdX |-> dNX,
         B |-> BOperator(dNX, d),
         intVol |-> IntegratedVolume(gpt.weight, detJ, section, props)]

\* initializeYourself( const double* coordinates )
InitializeYourself(X) ==
    /\ Idle
    /\ IF \/ \E i \in GaussIdx : gaussPts[i].material = <<>>
          \/ (sectionType # "Solid" /\ elementProperties = <<>>)
       THEN UndefinedBehaviour
       ELSE /\ coordinates' = X
            /\ gaussPts' =
                 [i \in GaussIdx |->
                    LET geo == MakeGeometry(gaussPts[i], X, nDim, sectionType, elementProperties)
                    IN  [gaussPts[i] EXCEPT
                            !.geometry = <<geo>>,
                            !.material = <<[gaussPts[i].material[1] EXCEPT
                                !.characteristicElementLength =
                                    ElementLength(geo.detJ, sectionType)]>>]]
            /\ raised' = "none"
            /\ lastOp' = Operation("initializeYourself", "")
            /\ Pe' = <<>>
            /\ Ke' = <<>>
            /\ pNewDT' = 100
            /\ pre' = [NoSnapshot EXCEPT !.gaussPts = gaussPts]
            /\ log' = <<>>
            /\ outcome' = "None"
            /\ UNCHANGED <<config, elementProperties, stateVars, kernel, status, counters>>

(* --------------------------- initial conditions ------------------------ *)

\* the stress of one Gauss Point after the GeostaticStress case
GeostaticStress(stress, gpt, X, d, values) ==
    LET coordAtGauss == MatVec(NB(gpt.xi, d), X)
        sigY == linearInterpolation(coordAtGauss[2], values[2], values[4], values[1], values[3])
    IN  [stress EXCEPT ![2] = sigY, ![1] = values[5] * sigY, ![3] = values[6] * sigY]

RECURSIVE GeostaticBuffer(_, _, _)
\* the loop over the Gauss Points 0..n-1, each writing through its stress view
GeostaticBuffer(buf, n, values) ==
    IF n = 0 THEN buf
    ELSE LET b   == GeostaticBuffer(buf, n - 1, values)
             gpt == gaussPts[n - 1]
         IN  WriteView(b, gpt.stress,
                       GeostaticStress(ReadView(b, gpt.stress), gpt, coordinates, nDim, values))

\* setInitialConditions( StateTypes state, const double* values )
SetInitialConditions(state, values) ==
    /\ Idle
    /\ IF state = "GeostaticStress" /\ nDim > 1
       THEN IF \/ coordinates = <<>>
               \/ \E i \in GaussIdx : ~ViewInBuffer(stateVars, gaussPts[i].stress)
            THEN UndefinedBehaviour
            ELSE /\ stateVars' = GeostaticBuffer(stateVars, nGauss, values)
                 /\ raised' = "none"
                 /\ ForgetCall("setInitialConditions")
                 /\ UNCHANGED <<config, gaussPts, elementProperties, coordinates, kernel,
                                status, counters>>
       ELSE /\ raised' = "none"
            /\ ForgetCall("setInitialConditions")
            /\ UNCHANGED <<config, gaussPts, elementProperties, coordinates, stateVars, kernel,
                           status, counters>>

(* --------------------------------- loads ------------------------------- *)

\* FiniteElement::BoundaryElement::computeNormalLoadVector for a face
computeNormalLoadVector(elementFace, X, d) == [k \in 1..d |-> X[1] * k]

\* FiniteElement::BoundaryElement::assembleIntoParentVector
assembleIntoParentVector(Pk, fU, elementFace, d) ==
    [c \in 1..Len(fU) |->
        IF (c - 1) \div d = elementFace - 1 THEN fU[c] + Pk[((c - 1) % d) + 1] ELSE fU[c]]

\* case BftElement::Pressure of computeDistributedLoad
PressureLoad(P, elementFace, p, X, d, props) ==
    LET Pk  == VecScale(0 - p, computeNormalLoadVector(elementFace, X, d))
        Pkt == IF d = 2 THEN VecScale(props[1], Pk) ELSE Pk
    IN  assembleIntoParentVector(Pkt, P, elementFace, d)


\* a switch whose default case accepts the load type in silence
NoDistributedLoadException(loadType) == "none"

\* the exception computeDistributedLoad ends with for a load type
DistributedLoadException(loadType) ==
    IF loadType = "Pressure" THEN "none" ELSE "invalid_argument"

\* computeDistributedLoad( loadType, P, K, elementFace, load, QTotal, time, dT )
ComputeDistributedLoad(loadType, P, elementFace, load) ==
    /\ Idle
    /\ IF DistributedLoadException(loadType) = "none"
       THEN IF coordinates = <<>> \/ (nDim = 2 /\ elementProperties = <<>>)
            THEN UndefinedBehaviour
            ELSE /\ Pe' = PressureLoad(P, elementFace, load[1], coordinates, nDim,
                                       elementProperties)
                 /\ raised' = "none"
                 /\ TakeLoadVector(P, "computeDistributedLoad", loadType)
                 /\ UNCHANGED <<config, gaussPts, elementProperties, coordinates, stateVars,
                                kernel, status, counters>>
       ELSE /\ Pe' = P
            /\ raised' = DistributedLoadException(loadType)
            /\ TakeLoadVector(P, "computeDistributedLoad", loadType)
            /\ UNCHANGED <<config, gaussPts, elementProperties, coordinates, stateVars,
                           kernel, status, counters>>

RECURSIVE BodyForceVector(_, _, _)
\* the loop of computeBodyForce over the Gauss Points 0..n-1
BodyForceVector(P, n, f) ==
    IF n = 0 THEN P
    ELSE LET gpt == gaussPts[n - 1]
         IN  VecAdd(BodyForceVector(P, n - 1, f),
                    VecScale(gpt.geometry[1].intVol, MatVec(Transpose(NB(gpt.xi, nDim)), f)))

\* computeBodyForce( P, K, load, QTotal, time, dT )
ComputeBodyForce(P, f) ==
    /\ Idle
    /\ IF \E i \in GaussIdx : gaussPts[i].geometry = <<>>
       THEN UndefinedBehaviour
       ELSE /\ Pe' = BodyForceVector(P, nGauss, f)
            /\ raised' = "none"
            /\ TakeLoadVector(P, "computeBodyForce", "")
            /\ UNCHANGED <<config, gaussPts, elementProperties, coordinates, stateVars,
                           kernel, status, counters>>

(* --------------------------- computation kernel ------------------------ *)

\* the branches of computeYourself that call the material
MaterialCalled(d, section) ==
    \/ d = 1
    \/ (d = 2 /\ section \in {"PlaneStress", "PlaneStrain"})
    \/ (d = 3 /\ section = "Solid")

\* dE expanded to the 6 components handed to the material
FullIncrement(d, dE) ==
    CASE d = 1 -> <<dE[1], 0, 0, 0, 0, 0>>
      [] d = 2 -> planeVoigtToVoigt(dE)
      [] OTHER -> dE

\* gaussPt.stress after the material call of the branch taken
StressAfterMaterial(d, section, stress, dE6, E) ==
    CASE d = 1 -> computeUniaxialStress(stress, dE6, E)
      [] d = 2 /\ section = "PlaneStress" -> computePlaneStress(stress, dE6, E)
      [] OTHER -> computeStress(stress, dE6, E)

\* the tangent the material of this Gauss Point returned, reduced as its branch reduces it
TangentOfBranch(d, section, C66) ==
    CASE d = 1 -> << <<getUniaxialStressTangent(C66)>> >>
      [] d = 2 /\ section = "PlaneStress" -> getPlaneStressTangent(C66)
      [] d = 2 -> getPlaneStrainTangent(C66)
      [] OTHER -> C66

\* local C after the branch: assigned only where the material is called
ReducedTangent(d, section, C66, Cloc) ==
    IF MaterialCalled(d, section) THEN TangentOfBranch(d, section, C66) ELSE Cloc

\* the dimension-specific extraction of a Gauss Point's stress
ExtractStress(d, stress) ==
    CASE d = 1 -> <<stress[1]>>
      [] d = 2 -> voigtToPlaneVoigt(stress)
      [] OTHER -> stress

\* local S after the branch: the nDim == 1 branch has no assignment to S
ReducedStress(d, stress, Sloc) ==
    CASE d = 1 -> Sloc
      [] d = 2 -> voigtToPlaneVoigt(stress)
      [] OTHER -> stress

\* gaussPt.strain after the branch: the nDim == 1 branch has no strain += dE6
StrainAfter(d, strain, dE6) == IF d = 1 THEN strain ELSE VecAdd(strain, dE6)


\* a step size test that also takes the unchanged step size for a cut-back
CutBackOnFullStep(p) == p <= 100

\* if ( pNewDT < 1.0 ) return;
CutBack(p) == p < 100

\* Ke += B.transpose() * C * B * intVol
TangentContribution(B, Cmat, intVol) == MatScale(intVol, MatMul(Transpose(B), MatMul(Cmat, B)))

\* Pe -= B.transpose() * S * intVol   (the amount subtracted)
ForceContribution(B, Svec, intVol) == VecScale(intVol, MatVec(Transpose(B), Svec))

\* what an Eigen matrix that was never assigned may hold when it is read
Garbage == {7, -5}

GarbageVector(g, n) == [k \in 1..n |-> g]

GarbageMatrix(g, n) == [k \in 1..n |-> GarbageVector(g, n)]

DQChoices(d) ==
    {[c \in 1..sizeLoadVector(d) |-> c], [c \in 1..sizeLoadVector(d) |-> IF c = 1 THEN 1 ELSE 0]}

\* the fraction the caller hands in is never below 1.0
FractionsIn == {100}

\* computeYourself is entered: the Maps are set up, S, dE and C are declared
ComputeYourselfEnter(dQ_, Pe_, Ke_, pNewDT_) ==
    /\ Idle
    /\ nCalls < MaxCalls
    /\ Pe' = Pe_
    /\ Ke' = Ke_
    /\ pc' = "Evaluating"
    /\ gaussPtIdx' = 0
    /\ dQ' = dQ_
    /\ S' = <<>>
    /\ C' = <<>>
    /\ pNewDT' = pNewDT_
    /\ nCalls' = nCalls + 1
    /\ raised' = "none"
    /\ lastOp' = Operation("computeYourself", "")
    /\ pre' = [Pe |-> Pe_, Ke |-> Ke_, stateVars |-> stateVars, gaussPts |-> gaussPts]
    /\ log' = <<>>
    /\ outcome' = "Running"
    /\ UNCHANGED <<config, gaussPts, elementProperties, coordinates, stateVars, status,
                   nextInstance>>

\* one Gauss Point can be gone through without undefined behaviour
IterationDefined(gpt) ==
    /\ gpt.geometry # <<>>
    /\ ViewInBuffer(stateVars, gpt.stress)
    /\ nDim > 1 => ViewInBuffer(stateVars, gpt.strain)
    /\ MaterialCalled(nDim, sectionType) =>
          /\ gpt.material # <<>>
          /\ MaterialStateInBuffer(stateVars, gpt.material[1])

\* the body of the loop of computeYourself for the Gauss Point gaussPtIdx, with the
\* material answering r and an unassigned local read as g
GaussPtIteration(r, g) ==
    LET gpt     == gaussPts[gaussPtIdx]
        geo     == gpt.geometry[1]
        called  == MaterialCalled(nDim, sectionType)
        dE      == MatVec(geo.B, dQ)
        dE6     == FullIncrement(nDim, dE)
        E       == IF called THEN MaterialStiffness(stateVars, gpt.material[1]) ELSE 0
        stress0 == ReadView(stateVars, gpt.stress)
        stress1 == IF called THEN StressAfterMaterial(nDim, sectionType, stress0, dE6, E)
                   ELSE stress0
        buf1    == IF called
                   THEN WriteView(WriteMaterialState(stateVars, gpt.material[1]),
                                  gpt.stress, stress1)
                   ELSE stateVars
        p1      == IF called THEN FractionAfter(pNewDT, r) ELSE pNewDT
        C1      == ReducedTangent(nDim, sectionType, MaterialTangent(E), C)
        S1      == ReducedStress(nDim, stress1, S)
        buf2    == IF nDim = 1 THEN buf1
                   ELSE WriteView(buf1, gpt.strain,
                                  StrainAfter(nDim, ReadView(buf1, gpt.strain), dE6))
        Cread   == IF C1 = <<>> THEN GarbageMatrix(g, GeometryVoigtSize(nDim)) ELSE C1
        Sread   == IF S1 = <<>> THEN GarbageVector(g, GeometryVoigtSize(nDim)) ELSE S1
        entry   == [gaussPt |-> gaussPtIdx, materialCalled |-> called, pNewDT |-> p1,
                    dE6 |-> dE6,
                    tangent |-> IF called
                                THEN TangentOfBranch(nDim, sectionType, MaterialTangent(E))
                                ELSE <<>>,
                    stress |-> ReadView(buf2, gpt.stress),
                    strain |-> IF ViewInBuffer(buf2, gpt.strain)
                               THEN ReadView(buf2, gpt.strain) ELSE <<>>,
                    accumulated |-> ~CutBack(p1),
                    Cused |-> IF CutBack(p1) THEN <<>> ELSE Cread,
                    Sused |-> IF CutBack(p1) THEN <<>> ELSE Sread]
    IN  /\ stateVars' = buf2
        /\ pNewDT' = p1
        /\ log' = Append(log, entry)
        /\ IF CutBack(p1)
           THEN /\ pc' = "Stable"
                /\ outcome' = "CutBackRequested"
                /\ S' = <<>>
                /\ C' = <<>>
                /\ UNCHANGED <<Pe, Ke, gaussPtIdx>>
           ELSE /\ Ke' = MatAdd(Ke, TangentContribution(geo.B, Cread, geo.intVol))
                /\ Pe' = VecSub(Pe, ForceContribution(geo.B, Sread, geo.intVol))
                /\ IF gaussPtIdx + 1 < nGauss
                   THEN /\ gaussPtIdx' = gaussPtIdx + 1
                        /\ S' = Sread
                        /\ C' = Cread
                        /\ UNCHANGED <<pc, outcome>>
                   ELSE /\ pc' = "Stable"
                        /\ outcome' = "Completed"
                        /\ S' = <<>>
                        /\ C' = <<>>
                        /\ UNCHANGED gaussPtIdx
        /\ UNCHANGED <<config, gaussPts, elementProperties, coordinates, dQ, status, raised,
                       counters, pre, lastOp>>

\* the unassigned locals the iteration reads, if it accumulates
ReadsUnassigned ==
    \/ (nDim = 1 /\ S = <<>>)
    \/ (~MaterialCalled(nDim, sectionType) /\ C = <<>>)

\* for ( GaussPt& gaussPt : gaussPts ) { ... }: one pass of the loop body
ComputeYourselfGaussPt ==
    /\ status = "ok"
    /\ pc = "Evaluating"
    /\ IF ~IterationDefined(gaussPts[gaussPtIdx])
       THEN UndefinedBehaviour
       ELSE \E r \in (IF MaterialCalled(nDim, sectionType) THEN MatResponses
                      ELSE {[cutTo |-> 0]}) :
            \E g \in (IF ReadsUnassigned THEN Garbage ELSE {0}) :
                GaussPtIteration(r, g)

(* ------------------------------ the caller ----------------------------- *)

\* thickness or cross-section the caller's property record holds
PropertyChoices == {<<1>>, <<2>>}

CoordinateChoices(d) ==
    {[k \in 1..nCoordinates(d) |-> k], [k \in 1..nCoordinates(d) |-> 2 * k]}

\* buffer lengths the caller may pass: the required one, one that is no multiple
\* of the block size, one too short for the stress and strain of every Gauss Point
StateVarLengths ==
    {getNumberOfRequiredStateVars, getNumberOfRequiredStateVars + 1,
     nRequiredStateVars * nGauss - 2}

\* a buffer restored from a checkpoint
RestoredBuffer(n) == [k \in 1..n |-> (k % 3) + 1]

\* the caller's buffer: fresh (zeros) or restored
BufferChoices ==
    {Zeros(n) : n \in StateVarLengths} \cup {RestoredBuffer(n) : n \in StateVarLengths}

\* { sigY1, y1, sigY2, y2, ratio_x, ratio_z }
GeostaticValues == <<-1, 0, -3, 1, 2, 3>>

ElementFaces == {1, 2}

BodyForces(d) == {[k \in 1..d |-> k]}

\* the output vector as the caller hands it in: zero-initialized, or holding earlier contributions
LoadVectors(d) == {Zeros(sizeLoadVector(d)), [c \in 1..sizeLoadVector(d) |-> c]}

ZeroKe(d) == ZeroMat(sizeLoadVector(d), sizeLoadVector(d))

\* the displacement increment of the lifecycle specifications
OneIncrement(d) == [c \in 1..sizeLoadVector(d) |-> c]

(* ---------------------------- specifications --------------------------- *)

\* Every operation, in any order the caller likes, on any arguments of the sets above.
Next ==
    \/ \E props \in PropertyChoices : AssignProperty(props)
    \/ AssignPropertySection
    \/ \E n \in {getNumberOfRequiredStateVars, nRequiredStateVars * nGauss - 2} :
          AssignStateVars(RestoredBuffer(n))
    \/ \E X \in CoordinateChoices(nDim) : InitializeYourself(X)
    \/ \E state \in StateTypes : SetInitialConditions(state, GeostaticValues)
    \/ \E loadType \in DistributedLoadTypes :
          ComputeDistributedLoad(loadType, Zeros(sizeLoadVector(nDim)), 1, <<3>>)
    \/ \E f \in BodyForces(nDim) : ComputeBodyForce(Zeros(sizeLoadVector(nDim)), f)
    \/ /\ nCalls = 0
       /\ ComputeYourselfEnter(OneIncrement(nDim), Zeros(sizeLoadVector(nDim)), ZeroKe(nDim), 100)
    \/ ComputeYourselfGaussPt

Spec == Init /\ [][Next]_vars

\* The same operations in any order, with one material section per element: the
\* materials are made once, everything else may be repeated.
LifecycleNext ==
    \/ \E props \in PropertyChoices : AssignProperty(props)
    \/ nextInstance = 0 /\ AssignPropertySection
    \/ AssignStateVars(RestoredBuffer(getNumberOfRequiredStateVars))
    \/ \E X \in CoordinateChoices(nDim) : InitializeYourself(X)
    \/ \E state \in StateTypes : nCalls = 0 /\ SetInitialConditions(state, GeostaticValues)
    \/ \E loadType \in DistributedLoadTypes, P \in LoadVectors(nDim) :
          ComputeDistributedLoad(loadType, P, 1, <<3>>)
    \/ \E f \in BodyForces(nDim) : ComputeBodyForce(Zeros(sizeLoadVector(nDim)), f)
    \/ /\ nCalls = 0
       /\ ComputeYourselfEnter(OneIncrement(nDim), Zeros(sizeLoadVector(nDim)), ZeroKe(nDim), 100)
    \/ ComputeYourselfGaussPt

SpecLifecycle == Init /\ [][LifecycleNext]_vars

\* Binding the state buffer: materials are made, then the caller binds buffers of
\* any of the lengths and contents above, again and again.
BindingNext ==
    \/ AssignPropertySection
    \/ \E buffer \in BufferChoices : AssignStateVars(buffer)

SpecBinding == Init /\ [][BindingNext]_vars

\* The documented life of an element: properties, materials, state buffer and
\* geometry are set up once, in this order and with a buffer of the required
\* length; then computeYourself is called increment after increment, the caller
\* accumulating into the same Pe and Ke.
KernelNext ==
    \/ elementProperties = <<>> /\ AssignProperty(<<2>>)
    \/ elementProperties # <<>> /\ nextInstance = 0 /\ AssignPropertySection
    \/ /\ nextInstance > 0
       /\ stateVars = <<>>
       /\ AssignStateVars(RestoredBuffer(getNumberOfRequiredStateVars))
    \/ /\ stateVars # <<>>
       /\ coordinates = <<>>
       /\ \E X \in CoordinateChoices(nDim) : InitializeYourself(X)
    \/ /\ coordinates # <<>>
       /\ \E dQ_ \in DQChoices(nDim), p \in FractionsIn :
             ComputeYourselfEnter(dQ_,
                                  IF Pe = <<>> THEN Zeros(sizeLoadVector(nDim)) ELSE Pe,
                                  IF Ke = <<>> THEN ZeroKe(nDim) ELSE Ke,
                                  p)
    \/ ComputeYourselfGaussPt

SpecKernel == Init /\ [][KernelNext]_vars

(* ------------------------------- properties ---------------------------- *)

\* the stress and strain a Gauss Point's views show in a buffer
StressIn(buf, i) == ReadView(buf, gaussPts[i].stress)

StrainIn(buf, i) == ReadView(buf, gaussPts[i].strain)

Returned == status = "ok" /\ pc = "Stable" /\ lastOp.name = "computeYourself"

\* the Gauss Point at which the last computeYourself asked for a cut-back
CutBackAt == Len(log) - 1

RECURSIVE LoggedKe(_)
\* Ke as the first n Gauss Points of this call left it, by what each is logged to have added
LoggedKe(n) ==
    IF n = 0 THEN pre.Ke
    ELSE IF log[n].accumulated
         THEN MatAdd(LoggedKe(n - 1),
                     TangentContribution(gaussPts[n - 1].geometry[1].B, log[n].Cused,
                                         gaussPts[n - 1].geometry[1].intVol))
         ELSE LoggedKe(n - 1)

RECURSIVE LoggedPe(_)
LoggedPe(n) ==
    IF n = 0 THEN pre.Pe
    ELSE IF log[n].accumulated
         THEN VecSub(LoggedPe(n - 1),
                     ForceContribution(gaussPts[n - 1].geometry[1].B, log[n].Sused,
                                       gaussPts[n - 1].geometry[1].intVol))
         ELSE LoggedPe(n - 1)

\* C1 (as claimed): when computeYourself returns with a cut-back requested at Gauss
\* Point k, Pe and Ke hold exactly their pre-call values, the contributions of the
\* Gauss Points 0..k-1 of this call included.
C1_CutBackLeavesOutputsUntouched ==
    (Returned /\ outcome = "CutBackRequested") => (Pe = pre.Pe /\ Ke = pre.Ke)

\* C2: computeYourself goes through the Gauss Points in the order 0, 1, ..., g-1 and
\* returns either Completed, every Gauss Point gone through and accumulated exactly
\* once and no fraction below 1.0 seen, or CutBackRequested(k) at the first Gauss
\* Point k whose material call left the fraction below 1.0: then no Gauss Point
\* beyond k was gone through, nothing was accumulated for k, Pe and Ke hold the
\* contributions of 0..k-1 only, and the caller sees the fraction written at k.
C2_CutBackProtocol ==
    (status = "ok" /\ lastOp.name = "computeYourself") =>
       /\ \A j \in 1..Len(log) : log[j].gaussPt = j - 1
       /\ Ke = LoggedKe(Len(log))
       /\ Pe = LoggedPe(Len(log))
       /\ pc = "Evaluating" =>
             /\ outcome = "Running"
             /\ gaussPtIdx = Len(log)
             /\ gaussPtIdx < nGauss
             /\ \A j \in 1..Len(log) : log[j].accumulated /\ log[j].pNewDT >= 100
       /\ pc = "Stable" => outcome \in {"Completed", "CutBackRequested"}
       /\ outcome = "Completed" =>
             /\ Len(log) = nGauss
             /\ \A j \in 1..Len(log) : log[j].accumulated /\ log[j].pNewDT >= 100
       /\ outcome = "CutBackRequested" =>
             /\ Len(log) >= 1
             /\ log[Len(log)].materialCalled
             /\ log[Len(log)].pNewDT < 100
             /\ ~log[Len(log)].accumulated
             /\ pNewDT = log[Len(log)].pNewDT
             /\ \A j \in 1..(Len(log) - 1) : log[j].accumulated /\ log[j].pNewDT >= 100

\* C2 witness: a cut-back at Gauss Point 1, after Gauss Point 0 was accumulated
C2_Witness ==
    /\ Returned
    /\ outcome = "CutBackRequested"
    /\ CutBackAt = 1
    /\ Ke # pre.Ke

\* C8 (as claimed): whenever computeYourself accumulates a Gauss Point, the C it
\* uses is the reduced tangent the material returned for this Gauss Point in this
\* call, and the S it uses is the extraction of this Gauss Point's updated stress.
C8_AccumulatesOwnTangentAndStress ==
    (status = "ok" /\ lastOp.name = "computeYourself") =>
        \A j \in 1..Len(log) :
            log[j].accumulated =>
                /\ log[j].Cused = log[j].tangent
                /\ log[j].Sused = ExtractStress(nDim, log[j].stress)

\* C9 (as claimed): each Gauss Point computeYourself has gone through holds its
\* strain from before the call plus its own full strain increment.
C9_StrainGrowsByIncrement ==
    (status = "ok" /\ lastOp.name = "computeYourself") =>
        \A j \in 1..Len(log) :
            log[j].strain = VecAdd(StrainIn(pre.stateVars, j - 1), log[j].dE6)

\* C10: after a cut-back at Gauss Point k the stress and strain of the Gauss Points
\* 0..k are those this call wrote (nothing is rolled back), and those of the Gauss
\* Points beyond k are the pre-call ones.
C10_NoRollbackOnCutBack ==
    (Returned /\ outcome = "CutBackRequested") =>
        \A i \in GaussIdx :
            IF i <= CutBackAt
            THEN /\ StressIn(stateVars, i) = log[i + 1].stress
                 /\ StrainIn(stateVars, i) = log[i + 1].strain
            ELSE /\ StressIn(stateVars, i) = StressIn(pre.stateVars, i)
                 /\ StrainIn(stateVars, i) = StrainIn(pre.stateVars, i)

\* C10 witness: a cut-back before the last Gauss Point that left the state buffer changed
C10_Witness ==
    /\ Returned
    /\ outcome = "CutBackRequested"
    /\ CutBackAt + 1 < nGauss
    /\ StressIn(stateVars, CutBackAt) # StressIn(pre.stateVars, CutBackAt)

\* the indices of the caller's buffer a block of len doubles at offset off takes up
Region(off, len) == {k \in off..(off + len - 1) : TRUE}

BlockSize == MatStateVars + nRequiredStateVars

BoundExactly ==
    /\ status = "ok"
    /\ lastOp.name = "assignStateVars"
    /\ Len(stateVars) = getNumberOfRequiredStateVars

\* the three regions of every Gauss Point, as bound
BoundRegions ==
    UNION {{Region(gaussPts[i].material[1].stateVars[1], gaussPts[i].material[1].nStateVars),
            Region(gaussPts[i].stress[1], VoigtSize),
            Region(gaussPts[i].strain[1], VoigtSize)} : i \in GaussIdx}

\* C3: after assignStateVars( buffer, (m+12)*g ) Gauss Point i has its material state
\* at buffer[i*(m+12) .. i*(m+12)+m-1], its stress in the next 6 entries and its
\* strain in the 6 after those; the 3*g regions are pairwise disjoint, lie inside
\* the buffer and cover it; getPermanentResultPointer( "stress"/"strain", i ) gives
\* exactly those regions with length 6, so what the buffer held is read back.
C3_BufferPartition ==
    BoundExactly =>
       /\ \A i \in GaussIdx :
            /\ getPermanentResultPointer("sdv", i)
                  = [data |-> <<i * BlockSize>>, resultLength |-> MatStateVars]
            /\ getPermanentResultPointer("stress", i)
                  = [data |-> <<i * BlockSize + MatStateVars>>, resultLength |-> 6]
            /\ getPermanentResultPointer("strain", i)
                  = [data |-> <<i * BlockSize + MatStateVars + 6>>, resultLength |-> 6]
            /\ ReadView(stateVars, getPermanentResultPointer("stress", i).data)
                  = [j \in 1..6 |-> stateVars[i * BlockSize + MatStateVars + j]]
            /\ ReadView(stateVars, getPermanentResultPointer("strain", i).data)
                  = [j \in 1..6 |-> stateVars[i * BlockSize + MatStateVars + 6 + j]]
       /\ \A r1, r2 \in BoundRegions : r1 # r2 => r1 \cap r2 = {}
       /\ Cardinality(BoundRegions) = 3 * nGauss
       /\ UNION BoundRegions = 0..(Len(stateVars) - 1)

\* C3 witness: a restored buffer of the required length is bound to two Gauss Points or more
C3_Witness ==
    /\ BoundExactly
    /\ nGauss >= 2
    /\ stateVars = RestoredBuffer(getNumberOfRequiredStateVars)
    /\ StrainIn(stateVars, nGauss - 1) # Zeros(6)

\* C4 (as claimed): assignStateVars with a length that is no multiple of
\* (materialStateVars + 12) * gaussPointCount ends in a failure and binds no view.
C4_BadLengthFailsFast ==
    (lastOp.name = "assignStateVars" /\ Len(stateVars) % getNumberOfRequiredStateVars # 0) =>
        /\ raised # "none"
        /\ \A i \in GaussIdx : gaussPts[i].stress = <<>> /\ gaussPts[i].strain = <<>>

\* C5: computeDistributedLoad with a load type other than Pressure ends in the
\* unsupported-operation failure and leaves P and every Gauss Point's state as
\* they were; only Pressure writes to P.
C5_UnsupportedLoadRejected ==
    (status = "ok" /\ lastOp.name = "computeDistributedLoad") =>
       /\ lastOp.arg # "Pressure" =>
             /\ raised = "invalid_argument"
             /\ Pe = pre.Pe
             /\ gaussPts = pre.gaussPts
             /\ stateVars = pre.stateVars
       /\ lastOp.arg = "Pressure" => raised = "none"
       /\ Pe # pre.Pe => lastOp.arg = "Pressure"

\* C5 witness: an unsupported load type was rejected on a load vector that held contributions
C5_Witness ==
    /\ status = "ok"
    /\ lastOp = Operation("computeDistributedLoad", "SurfaceTraction")
    /\ raised = "invalid_argument"
    /\ Pe # Zeros(sizeLoadVector(nDim))
    /\ coordinates # <<>>

\* C6 (as claimed): once a Gauss Point owns a material instance it owns the same
\* instance until the element is destroyed, whatever operation runs.
C6_MaterialNeverReplaced ==
    [][\A i \in GaussIdx :
          gaussPts[i].material # <<>> =>
              /\ gaussPts'[i].material # <<>>
              /\ gaussPts'[i].material[1].id = gaussPts[i].material[1].id]_vars

\* C7 (as claimed): once initializeYourself has run, no later operation changes the
\* geometry cache of a Gauss Point, and initializeYourself with the same
\* coordinates leaves it with identical values.
C7_GeometryComputedOnce ==
    [][\A i \in GaussIdx :
          (gaussPts[i].geometry # <<>> /\ gaussPts'[i].geometry # gaussPts[i].geometry) =>
              /\ lastOp'.name = "initializeYourself"
              /\ coordinates' # coordinates]_vars

\* C7 (amended): the geometry cache is changed by no operation other than
\* initializeYourself; initializeYourself with the same coordinates leaves J, JInv,
\* detJ, dNdXi, dNdX and B identical, and the integrated volume too unless the
\* section is not Solid and elementProperties[0] is no longer the value the cached
\* volume was computed with.
C7_GeometryChangedOnlyByInitialization ==
    [][\A i \in GaussIdx :
          (gaussPts[i].geometry # <<>> /\ gaussPts'[i].geometry # gaussPts[i].geometry) =>
              /\ lastOp'.name = "initializeYourself"
              /\ \/ coordinates' # coordinates
                 \/ /\ sectionType # "Solid"
                    /\ gaussPts[i].geometry[1].intVol
                          # gaussPts[i].weight * gaussPts[i].geometry[1].detJ
                                * elementProperties[1]
                    /\ [gaussPts'[i].geometry[1] EXCEPT
                            !.intVol = gaussPts[i].geometry[1].intVol]
                          = gaussPts[i].geometry[1]]_vars

\* C7 witness: after an increment was computed, initializeYourself has run again on
\* cached geometry and left every Gauss Point's cache as it was
C7_Witness ==
    /\ status = "ok"
    /\ lastOp.name = "initializeYourself"
    /\ nCalls = 1
    /\ \A i \in GaussIdx :
          /\ pre.gaussPts[i].geometry # <<>>
          /\ gaussPts[i].geometry = pre.gaussPts[i].geometry

=============================================================================
